---------------------------- MODULE Spec2Model ----------------------------
(***************************************************************************)
(* Model of src/src/true_color/true_color.py: the tone curve, saturation   *)
(* enhancement and sRGB encoding of enhanceImage.                          *)
(*                                                                         *)
(* Array values (float64 in the source) are fixed-point numbers: the       *)
(* integer v stands for v / Scale, and every array operation truncates its *)
(* exact result to that grid.  Python float scalars (the parameters and    *)
(* the literals) are exact fractions <<numerator, denominator>>.           *)
(*                                                                         *)
(* Definitions keep the names of the source.  A parameter that the source  *)
(* names like one of enhanceImage's locals (r, g, b) has its letter        *)
(* doubled here, the locals being the variables of the model.              *)
(***************************************************************************)
EXTENDS Integers, Sequences, FiniteSets, TLC

(***************************************************************************)
(* Number representation.                                                  *)
(***************************************************************************)
Scale == 700000000
Base == 10000

Abs(a) == IF a < 0 THEN -a ELSE a
Sgn(a) == IF a < 0 THEN -1 ELSE 1

\* Exact arithmetic on the Python float scalars, as fractions (divisors > 0).
RAdd(p, q) == << p[1] * q[2] + q[1] * p[2], p[2] * q[2] >>
RSub(p, q) == << p[1] * q[2] - q[1] * p[2], p[2] * q[2] >>
RMul(p, q) == << p[1] * q[1], p[2] * q[2] >>
RDiv(p, q) == << p[1] * q[2], p[2] * q[1] >>
One == <<1, 1>>
Two == <<2, 1>>

\* a * n / d truncated toward zero, without leaving 32 bits.
MulDiv(a, n, d) ==
    Sgn(a) * Sgn(n) * ((Abs(a) \div d) * Abs(n) + ((Abs(a) % d) * Abs(n)) \div d)

\* The grid value of a scalar, and array-by-scalar product and quotient.
Fix(c) == MulDiv(Scale, c[1], c[2])
RTimes(v, c) == MulDiv(v, c[1], c[2])
RQuot(v, c) == MulDiv(v, c[2], c[1])

\* Naturals beyond 32 bits: little-endian sequences of limbs in 0..Base-1.
ToBig(n) == << n % Base, (n \div Base) % Base, n \div (Base * Base) >>
Limb(a, i) == IF 1 <= i /\ i <= Len(a) THEN a[i] ELSE 0

\* The sequence of the first n values of f.
Limbs(f, n) == SubSeq(f, 1, n)

\* Moves what exceeds a limb one place up; the value is unchanged.
Spread(s) ==
    Limbs([k \in 1..Len(s) |-> (s[k] % Base) + (Limb(s, k - 1) \div Base)], Len(s))

\* The carry into place k of limbs that are all at most Base.
CarryIn(u, k) ==
    \E j \in 1..(k - 1) : u[j] = Base /\ \A i \in (j + 1)..(k - 1) : u[i] = Base - 1
Settle(u) ==
    IF \A k \in 1..Len(u) : u[k] < Base THEN u
    ELSE Limbs([k \in 1..Len(u) |->
                   (u[k] + IF CarryIn(u, k) THEN 1 ELSE 0) % Base], Len(u))

\* Without the leading zero limbs.
Trim(a) ==
    SubSeq(a, 1, CHOOSE n \in 1..Len(a) :
                     (n = 1 \/ a[n] # 0) /\ \A i \in (n + 1)..Len(a) : a[i] = 0)

\* The product of a and the natural n < 2 ** 31: the column sums, three times
\* spread (leaving every limb at most Base), then the remaining carries.
Columns(a, m) ==
    Limbs([k \in 1..(Len(a) + 3) |->
              Limb(a, k) * m[1] + Limb(a, k - 1) * m[2] + Limb(a, k - 2) * m[3]],
          Len(a) + 3)
BTimes(a, n) == Trim(Settle(Spread(Spread(Spread(Columns(a, ToBig(n)))))))

\* a * n ** k.
BTimesPow(a, n, k) ==
    LET pw[i \in 0..k, acc \in Seq(Nat)] ==
            IF i = 0 THEN acc ELSE pw[i - 1, BTimes(acc, n)]
    IN pw[k, a]

BLess(a, c) ==
    LET n == IF Len(a) > Len(c) THEN Len(a) ELSE Len(c)
    IN \E i \in 1..n : /\ Limb(a, i) < Limb(c, i)
                       /\ \A j \in (i + 1)..n : Limb(a, j) = Limb(c, j)

\* The largest n below 2 ** 31 with m * n ** q <= rhs, settled bit by bit
\* from the top, in three runs of bits.
Fits(n, q, m, rhs) == ~BLess(rhs, BTimesPow(m, n, q))
Bits(from, lo, hi, q, m, rhs) ==
    LET best[k \in (lo - 1)..hi, n \in Nat] ==
            IF k < lo THEN n
            ELSE best[k - 1, IF Fits(n + 2 ^ k, q, m, rhs) THEN n + 2 ^ k ELSE n]
    IN best[hi, from]
Largest(q, m, rhs) ==
    IF BLess(rhs, m) THEN 0
    ELSE Bits(Bits(Bits(0, 21, 30, q, m, rhs), 11, 20, q, m, rhs), 0, 10, q, m, rhs)

\* What a division by zero yields (inf or nan in numpy): a value off the grid.
NaN == -2147483647

\* Array operations * and / on grid values, truncated toward zero.
Mul(v, w) ==
    Sgn(v) * Sgn(w) * Largest(1, ToBig(Scale), BTimes(ToBig(Abs(v)), Abs(w)))
Div(v, w) ==
    IF w = 0 THEN NaN
    ELSE Sgn(v) * Sgn(w) * Largest(1, ToBig(Abs(w)), BTimes(ToBig(Abs(v)), Scale))

GCD(m, n) ==
    CHOOSE d \in 1..m : /\ m % d = 0 /\ n % d = 0
                        /\ \A e \in (d + 1)..m : m % e # 0 \/ n % e # 0
Min(m, n) == IF m < n THEN m ELSE n

\* v ** e for a grid value v and a scalar e = p/q > 0 (nan for v < 0): the
\* largest n with (n/Scale) ** q <= (v/Scale) ** p, that is
\* Scale ** p * n ** q <= v ** p * Scale ** q.
Pow(v, e) ==
    LET p == e[1] \div GCD(e[1], e[2])
        q == e[2] \div GCD(e[1], e[2])
        c == Min(p, q)
    IN IF v < 0 THEN NaN
       ELSE IF v = 0 THEN 0
       ELSE Largest(q, BTimesPow(<<1>>, Scale, p - c),
                    BTimesPow(BTimesPow(<<1>>, v, p), Scale, q - c))

(***************************************************************************)
(* Parameters (true_color.py lines 23-29).                                 *)
(***************************************************************************)
maxR == <<3, 1>>
midR == <<13, 100>>
sat == <<12, 10>>
gamma == <<18, 10>>
gOff == <<1, 100>>
gOffPow == Pow(Fix(gOff), gamma)
gOffRange == Pow(Fix(One) + Fix(gOff), gamma) - gOffPow

(***************************************************************************)
(* The element-wise functions.                                             *)
(***************************************************************************)
\* The gamma correction without the subtraction of gOffPow.
_adjGamma_noShift(bb) == Div(Pow(bb + Fix(gOff), gamma), gOffRange)

_adjGamma(bb) == Div(Pow(bb + Fix(gOff), gamma) - gOffPow, gOffRange)

\* No clamping at all.
_clip_none(s) == s

_clip(s) == IF s < 0 THEN 0 ELSE IF s > Scale THEN Scale ELSE s

\* The dividend and the divisor of the quotient in _adj, for the normalised ar.
_adjNum(ar, tx, ty, maxC) ==
    Mul(ar, RTimes(ar, RSub(RAdd(RDiv(tx, maxC), ty), One)) - Fix(ty))

\* The divisor without its term tx / maxC.
_adjDen_noOffset(ar, tx, ty, maxC) ==
    RTimes(ar, RSub(RDiv(RMul(Two, tx), maxC), One))

_adjDen(ar, tx, ty, maxC) ==
    RTimes(ar, RSub(RDiv(RMul(Two, tx), maxC), One)) - Fix(RDiv(tx, maxC))

_adj(a, tx, ty, maxC) ==
    LET ar == _clip(RQuot(a, maxC))
    IN Div(_adjNum(ar, tx, ty, maxC), _adjDen(ar, tx, ty, maxC))

_sAdj(a) == _adjGamma(_adj(a, midR, One, maxR))

sRGBBreak == Fix(<<31308, 10000000>>)

\* The encoder with the gain 1.055 of its upper branch left out.
_sRGB_noGain(c) ==
    IF c <= sRGBBreak
    THEN RTimes(c, <<1292, 100>>)
    ELSE Pow(c, RDiv(One, <<24, 10>>)) - Fix(<<55, 1000>>)

_sRGB(c) ==
    IF c <= sRGBBreak
    THEN RTimes(c, <<1292, 100>>)
    ELSE RTimes(Pow(c, RDiv(One, <<24, 10>>)), <<1055, 1000>>) - Fix(<<55, 1000>>)

(***************************************************************************)
(* Arrays.  A band is a function from the pixels <<y, x>> to values; a     *)
(* three-dimensional array is its shape and a function from the index      *)
(* triples to values.  An image carries a coordinate for each of its       *)
(* dimensions: the labels of band, and the positions along y and x.        *)
(***************************************************************************)
MaxY == 2
MaxX == 1

Pixels(ny, nx) == (1..ny) \X (1..nx)
Indices(shape) == (1..shape[1]) \X (1..shape[2]) \X (1..shape[3])

\* The sum of the elements of a (y, x) array.
SumOf(a) ==
    LET nx == a.shape[2]
        n == a.shape[1] * nx
        s[k \in 0..n] ==
            IF k = 0 THEN 0
            ELSE s[k - 1] + a.data[<< ((k - 1) \div nx) + 1, ((k - 1) % nx) + 1 >>]
    IN s[n]

\* The length of dimension d of the image X, and the shape its dims give.
SizeOf(X, d) == IF d = "band" THEN Len(X.band) ELSE IF d = "y" THEN X.ny ELSE X.nx
ShapeOf(X) == << SizeOf(X, X.dims[1]), SizeOf(X, X.dims[2]), SizeOf(X, X.dims[3]) >>

\* The index triple, in the order of dims, of band position c at pixel <<yy, xx>>.
Coord(d, c, yy, xx) == IF d = "band" THEN c ELSE IF d = "y" THEN yy ELSE xx
IndexOf(dims, c, yy, xx) ==
    << Coord(dims[1], c, yy, xx), Coord(dims[2], c, yy, xx), Coord(dims[3], c, yy, xx) >>

Labels(X) == {X.band[i] : i \in 1..Len(X.band)}
PosOf(X, label) == CHOOSE i \in 1..Len(X.band) : X.band[i] = label

\* The band stored at position c, as a (y, x) array.
At(X, c) ==
    [shape |-> << X.ny, X.nx >>,
     data |-> [p \in Pixels(X.ny, X.nx) |-> X.data[IndexOf(X.dims, c, p[1], p[2])]]]

\* xarr.sel(band=label): the band stored under that label.
Sel(X, label) == At(X, PosOf(X, label))

\* A function applied to every element of an array.
Each(F(_), a) == [a EXCEPT !.data = [i \in DOMAIN a.data |-> F(a.data[i])]]

(***************************************************************************)
(* The array functions.                                                    *)
(***************************************************************************)
\* One element of a band through the saturation stage: _clip(avgS + t * sat).
Enh(avg, t) == _clip(avg + RTimes(t, sat))

\* np.stack of the three enhanced bands, in the order r, g, b, along a new
\* first axis.
_satEnh(rr, gg, bb, avg) ==
    LET bands == << rr, gg, bb >>
        shape == << 3, rr.shape[1], rr.shape[2] >>
    IN [shape |-> shape,
        data |-> [i \in Indices(shape) |->
                     Enh(avg, bands[i[1]].data[<< i[2], i[3] >>])]]

avgS(rr, gg, bb) ==
    LET e == [rr EXCEPT !.data = [p \in DOMAIN rr.data |->
                 RTimes(RQuot(rr.data[p] + gg.data[p] + bb.data[p], <<3, 1>>),
                        RSub(One, sat))]]
    IN MulDiv(SumOf(e), 1, rr.shape[1] * rr.shape[2])

(***************************************************************************)
(* The inputs of enhanceImage.                                             *)
(***************************************************************************)
\* Colours of the pixels, as values of the bands red, green, blue and of a
\* fourth band that enhanceImage does not use.
Colours ==
    << [red |-> Fix(<<2, 10>>), green |-> Fix(<<3, 10>>), blue |-> Fix(<<1, 10>>),
        nir |-> Fix(<<4, 10>>)],
       [red |-> Fix(One), green |-> Fix(One), blue |-> Fix(One), nir |-> Fix(One)],
       [red |-> 0, green |-> 0, blue |-> 0, nir |-> 0] >>

\* The first pixel has colour number first, the following pixels the
\* following colours.
ColourAt(first, nx, yy, xx) == Colours[((first - 1 + (yy - 1) * nx + (xx - 1)) % Len(Colours)) + 1]

DimOrders == { <<"band", "y", "x">>, <<"y", "band", "x">>, <<"y", "x", "band">> }

BandCoords ==
    { <<"red", "green", "blue">>, <<"red", "blue", "green">>, <<"green", "red", "blue">>,
      <<"green", "blue", "red">>, <<"blue", "red", "green">>, <<"blue", "green", "red">>,
      <<"nir", "green", "blue">>, <<"red", "nir", "blue">>, <<"red", "green", "nir">> }

Image(dims, band, ny, nx, first) ==
    LET X == [dims |-> dims, band |-> band, ny |-> ny, nx |-> nx]
    IN [dims |-> dims, band |-> band, ny |-> ny, nx |-> nx,
        data |-> [i \in Indices(ShapeOf(X)) |->
                    LET c == CHOOSE k \in 1..3 : dims[k] = "band"
                        yy == CHOOSE k \in 1..3 : dims[k] = "y"
                        xx == CHOOSE k \in 1..3 : dims[k] = "x"
                    IN ColourAt(first, nx, i[yy], i[xx])[band[i[c]]]]]

Images ==
    { Image(dims, band, ny, nx, first) :
        dims \in DimOrders, band \in BandCoords, ny \in 1..MaxY, nx \in 1..MaxX,
        first \in 1..Len(Colours) }

Complete(X) == {"red", "green", "blue"} \subseteq Labels(X)

\* The argument average_saturation: absent, a bare float, or a DataArray scalar.
None == [kind |-> "None", val |-> 0]
Supplied == { Fix(<<-1, 25>>), Fix(<<3, 2>>) }
Arguments ==
    {None} \cup { [kind |-> k, val |-> v] : k \in {"float", "DataArray"}, v \in Supplied }

(***************************************************************************)
(* The values _sAdj and _sRGB are applied to.  Both functions are          *)
(* tabulated once over the values that occur; Tone and Encode are _sAdj    *)
(* and _sRGB, read from the table where it has the value.                  *)
(***************************************************************************)
GridN == 8
BreakWindow == 2

\* Values of [0, 1]: a grid, and the values next to the breakpoint of _sRGB.
Samples ==
    { MulDiv(Scale, k, GridN) : k \in 0..GridN }
      \cup { sRGBBreak + d : d \in (0 - BreakWindow)..BreakWindow }

Levels ==
    UNION { { Colours[i].red, Colours[i].green, Colours[i].blue, Colours[i].nir } :
            i \in 1..Len(Colours) }

sAdjTable == [v \in Levels \cup Samples |-> _sAdj(v)]

Tone(v) == IF v \in DOMAIN sAdjTable THEN sAdjTable[v] ELSE _sAdj(v)

Averages ==
    Supplied \cup
    { avgS(Each(Tone, Sel(X, "red")), Each(Tone, Sel(X, "green")), Each(Tone, Sel(X, "blue"))) :
        X \in { Y \in Images : Complete(Y) } }

LinearValues == { Enh(avg, sAdjTable[v]) : avg \in Averages, v \in Levels }

sRGBTable == [c \in LinearValues \cup Samples |-> _sRGB(c)]

Encode(c) == IF c \in DOMAIN sRGBTable THEN sRGBTable[c] ELSE _sRGB(c)

(***************************************************************************)
(* State.                                                                  *)
(***************************************************************************)
VARIABLES
    pc,                  \* the line enhanceImage is about to run, or its outcome
    xarr,                \* the argument xarr
    arg,                 \* the argument average_saturation as the caller passed it
    average_saturation,  \* the local average_saturation (line 77 may rebind it)
    r, g, b,             \* the tone-adjusted bands
    rgbLin,              \* the stacked array of line 78
    rgbLin_xr,           \* the labelled array of lines 79-80
    ret,                 \* the returned array
    err,                 \* the exception raised, if any
    prev,                \* what the caller kept of an earlier call on the same image
    fpc, fx, fden, ftone, fenc   \* the element-wise functions applied to two values

vars == << pc, xarr, arg, average_saturation, r, g, b, rgbLin, rgbLin_xr, ret, err, prev,
           fpc, fx, fden, ftone, fenc >>
fvars == << fpc, fx, fden, ftone, fenc >>
callvars == << pc, xarr, arg, average_saturation, r, g, b, rgbLin, rgbLin_xr, ret, err, prev >>

NoBand == [shape |-> << 0, 0 >>, data |-> << >>]
NoArray == [shape |-> << 0, 0, 0 >>, data |-> << >>]
NoCoord == [set |-> FALSE, val |-> 0]
NoImage == [dims |-> << >>, band |-> << >>, shape |-> << 0, 0, 0 >>, data |-> << >>,
            avgS |-> NoCoord]

Entry(X, a) ==
    /\ pc = "L73"
    /\ xarr = X
    /\ arg = a
    /\ average_saturation = a
    /\ r = NoBand /\ g = NoBand /\ b = NoBand
    /\ rgbLin = NoArray
    /\ rgbLin_xr = NoImage
    /\ ret = NoImage
    /\ err = "none"

FnOff == fpc = "off" /\ fx = << 0, 0 >> /\ fden = << 0, 0 >> /\ ftone = << 0, 0 >>
         /\ fenc = << 0, 0 >>

Init ==
    /\ \E X \in Images, a \in Arguments : Entry(X, a)
    /\ prev = NoImage
    /\ FnOff

(***************************************************************************)
(* enhanceImage, line by line.                                             *)
(***************************************************************************)
Raise(e) ==
    /\ pc' = "raised"
    /\ err' = e

\* r = _sAdj(xarr.sel(band='red'))
L73 ==
    /\ pc = "L73"
    /\ IF "red" \in Labels(xarr)
       THEN /\ r' = Each(Tone, Sel(xarr, "red"))
            /\ pc' = "L74"
            /\ err' = err
       ELSE /\ Raise("KeyError")
            /\ r' = r
    /\ UNCHANGED << xarr, arg, average_saturation, g, b, rgbLin, rgbLin_xr, ret, prev, fvars >>

\* g = _sAdj(xarr.sel(band='green'))
L74 ==
    /\ pc = "L74"
    /\ IF "green" \in Labels(xarr)
       THEN /\ g' = Each(Tone, Sel(xarr, "green"))
            /\ pc' = "L75"
            /\ err' = err
       ELSE /\ Raise("KeyError")
            /\ g' = g
    /\ UNCHANGED << xarr, arg, average_saturation, r, b, rgbLin, rgbLin_xr, ret, prev, fvars >>

\* Line 75 taking the third band by position instead of the band labelled blue.
L75_positional ==
    /\ pc = "L75"
    /\ b' = Each(Tone, At(xarr, 3))
    /\ pc' = "L76"
    /\ UNCHANGED << xarr, arg, average_saturation, r, g, rgbLin, rgbLin_xr, ret, err, prev,
                    fvars >>

\* b = _sAdj(xarr.sel(band='blue'))
L75 ==
    /\ pc = "L75"
    /\ IF "blue" \in Labels(xarr)
       THEN /\ b' = Each(Tone, Sel(xarr, "blue"))
            /\ pc' = "L76"
            /\ err' = err
       ELSE /\ Raise("KeyError")
            /\ b' = b
    /\ UNCHANGED << xarr, arg, average_saturation, r, g, rgbLin, rgbLin_xr, ret, prev, fvars >>

\* if average_saturation is None: average_saturation = avgS(r,g,b)
\* np.mean of a DataArray is a DataArray scalar.
L76 ==
    /\ pc = "L76"
    /\ average_saturation' =
           IF average_saturation.kind = "None"
           THEN [kind |-> "DataArray", val |-> avgS(r, g, b)]
           ELSE average_saturation
    /\ pc' = "L78"
    /\ UNCHANGED << xarr, arg, r, g, b, rgbLin, rgbLin_xr, ret, err, prev, fvars >>

\* rgbLin = _satEnh(r, g, b, average_saturation)
L78 ==
    /\ pc = "L78"
    /\ rgbLin' = _satEnh(r, g, b, average_saturation.val)
    /\ pc' = "L79"
    /\ UNCHANGED << xarr, arg, average_saturation, r, g, b, rgbLin_xr, ret, err, prev, fvars >>

\* rgbLin_xr = xr.DataArray(rgbLin, coords=xarr.coords, dims=xarr.dims):
\* the data is taken position by position; its shape must be the one the
\* coordinates give.
L79 ==
    /\ pc = "L79"
    /\ IF rgbLin.shape = ShapeOf(xarr)
       THEN /\ rgbLin_xr' = [dims |-> xarr.dims, band |-> xarr.band, shape |-> rgbLin.shape,
                             data |-> rgbLin.data, avgS |-> NoCoord]
            /\ pc' = "L80"
            /\ err' = err
       ELSE /\ Raise("ValueError")
            /\ rgbLin_xr' = rgbLin_xr
    /\ UNCHANGED << xarr, arg, average_saturation, r, g, b, rgbLin, ret, prev, fvars >>

\* Line 80 attaching a scalar computed anew from the bands.
L80_recomputed ==
    /\ pc = "L80"
    /\ rgbLin_xr' = [rgbLin_xr EXCEPT !.avgS = [set |-> TRUE, val |-> avgS(r, g, b)]]
    /\ pc' = "L81"
    /\ UNCHANGED << xarr, arg, average_saturation, r, g, b, rgbLin, ret, err, prev, fvars >>

\* Line 80 attaching the scalar itself, whatever its type.
L80_anyScalar ==
    /\ pc = "L80"
    /\ rgbLin_xr' = [rgbLin_xr EXCEPT !.avgS = [set |-> TRUE, val |-> average_saturation.val]]
    /\ pc' = "L81"
    /\ UNCHANGED << xarr, arg, average_saturation, r, g, b, rgbLin, ret, err, prev, fvars >>

\* Line 80 attaching the scalar clipped to [0, 1] like the data.
L80_clipped ==
    /\ pc = "L80"
    /\ rgbLin_xr' = [rgbLin_xr EXCEPT !.avgS = [set |-> TRUE,
                                                val |-> _clip(average_saturation.val)]]
    /\ pc' = "L81"
    /\ UNCHANGED << xarr, arg, average_saturation, r, g, b, rgbLin, ret, err, prev, fvars >>

\* rgbLin_xr['avgS'] = average_saturation.values: a float has no .values
L80 ==
    /\ pc = "L80"
    /\ IF average_saturation.kind = "DataArray"
       THEN /\ rgbLin_xr' = [rgbLin_xr EXCEPT !.avgS = [set |-> TRUE,
                                                        val |-> average_saturation.val]]
            /\ pc' = "L81"
            /\ err' = err
       ELSE /\ Raise("AttributeError")
            /\ rgbLin_xr' = rgbLin_xr
    /\ UNCHANGED << xarr, arg, average_saturation, r, g, b, rgbLin, ret, prev, fvars >>

\* return _sRGB(rgbLin_xr): xr.where encodes the data and keeps the coordinates
L81 ==
    /\ pc = "L81"
    /\ ret' = Each(Encode, rgbLin_xr)
    /\ pc' = "returned"
    /\ UNCHANGED << xarr, arg, average_saturation, r, g, b, rgbLin, rgbLin_xr, err, prev,
                    fvars >>

\* The caller of a call that computed the scalar itself calls again on the
\* same image, passing the scalar attached to the first result.
CallAgain ==
    /\ pc = "returned"
    /\ arg = None
    /\ prev = NoImage
    /\ prev' = ret
    /\ pc' = "L73"
    /\ arg' = [kind |-> "DataArray", val |-> ret.avgS.val]
    /\ average_saturation' = arg'
    /\ r' = NoBand /\ g' = NoBand /\ b' = NoBand
    /\ rgbLin' = NoArray
    /\ rgbLin_xr' = NoImage
    /\ ret' = NoImage
    /\ UNCHANGED << xarr, err, fvars >>

Next == L73 \/ L74 \/ L75 \/ L76 \/ L78 \/ L79 \/ L80 \/ L81 \/ CallAgain

Spec == Init /\ [][Next]_vars

(***************************************************************************)
(* The element-wise functions on their own: the divisor of _adj, _sAdj     *)
(* and _sRGB applied to two values x1 < x2 of [0, 1].                      *)
(***************************************************************************)
NoCall ==
    /\ pc = "off"
    /\ xarr = NoImage
    /\ arg = None
    /\ average_saturation = None
    /\ r = NoBand /\ g = NoBand /\ b = NoBand
    /\ rgbLin = NoArray
    /\ rgbLin_xr = NoImage
    /\ ret = NoImage
    /\ err = "none"
    /\ prev = NoImage

FnInit ==
    /\ NoCall
    /\ fpc = "adj"
    /\ \E x1 \in Samples, x2 \in Samples : x1 < x2 /\ fx = << x1, x2 >>
    /\ fden = << 0, 0 >>
    /\ ftone = << 0, 0 >>
    /\ fenc = << 0, 0 >>

\* ar * (2 * tx / maxC - 1) - tx / maxC with the arguments _sAdj passes, for
\* the normalised values ar = x1 and ar = x2
FnAdj ==
    /\ fpc = "adj"
    /\ fden' = << _adjDen(fx[1], midR, One, maxR), _adjDen(fx[2], midR, One, maxR) >>
    /\ fpc' = "tone"
    /\ UNCHANGED << fx, ftone, fenc, callvars >>

\* _sAdj(x1), _sAdj(x2)
FnTone ==
    /\ fpc = "tone"
    /\ ftone' = << Tone(fx[1]), Tone(fx[2]) >>
    /\ fpc' = "encode"
    /\ UNCHANGED << fx, fden, fenc, callvars >>

\* _sRGB(x1), _sRGB(x2)
FnEncode ==
    /\ fpc = "encode"
    /\ fenc' = << Encode(fx[1]), Encode(fx[2]) >>
    /\ fpc' = "done"
    /\ UNCHANGED << fx, fden, ftone, callvars >>

FnNext == FnAdj \/ FnTone \/ FnEncode

SpecFn == FnInit /\ [][FnNext]_vars

(***************************************************************************)
(* Properties.                                                             *)
(***************************************************************************)
InRange(a) == \A i \in DOMAIN a.data : 0 <= a.data[i] /\ a.data[i] <= Scale

\* The slice labelled label of a result R of the call on xarr.
SliceOf(R, label) ==
    Sel([dims |-> R.dims, band |-> R.band, ny |-> xarr.ny, nx |-> xarr.nx, data |-> R.data],
        label)

\* The input slice labelled label through the three stages, with the scalar avg.
Enhanced(label, avg) ==
    Each(Encode, Each(LAMBDA t : Enh(avg, t), Each(Tone, Sel(xarr, label))))

\* C1: for an image with values in [0, 1] and any average saturation,
\* computed or supplied, every value of the tone-adjusted bands, of the
\* saturation-enhanced array and of the returned image lies in [0, 1].
C1_RangeInvariant ==
    InRange(xarr) =>
        /\ InRange(r) /\ InRange(g) /\ InRange(b)
        /\ InRange(rgbLin)
        /\ InRange(rgbLin_xr)
        /\ InRange(ret)

\* A call returned with the supplied scalar 1.5, which alone exceeds 1: some
\* value of the result is 1 after clipping.
C1_Returned ==
    /\ pc = "returned"
    /\ arg = [kind |-> "DataArray", val |-> Fix(<<3, 2>>)]
    /\ \E i \in DOMAIN ret.data : ret.data[i] = Scale
    /\ \E i \in DOMAIN r.data : 0 < r.data[i] /\ r.data[i] < Scale

\* C2: for every order of the labels red, green, blue along band, the slice
\* of the result labelled L is the enhancement of the input slice labelled L.
C2_BandOrder ==
    (pc = "returned" /\ xarr.dims[1] = "band") =>
        \A label \in {"red", "green", "blue"} :
            SliceOf(ret, label) = Enhanced(label, ret.avgS.val)

\* A call returned whose slice labelled blue is the enhancement of the input
\* slice labelled red.
C2_Mislabelled ==
    /\ pc = "returned"
    /\ xarr.dims[1] = "band"
    /\ xarr.band = << "blue", "green", "red" >>
    /\ SliceOf(ret, "blue") = Enhanced("red", ret.avgS.val)
    /\ SliceOf(ret, "blue") # Enhanced("blue", ret.avgS.val)

\* C3: the scalar attached to the result is the scalar the saturation stage
\* used, not encoded: the supplied value when one is supplied, otherwise
\* avgS of the three tone-adjusted bands.
C3_AttachedScalar ==
    pc = "returned" =>
        /\ ret.avgS.set
        /\ ret.avgS.val = average_saturation.val
        /\ rgbLin = _satEnh(r, g, b, ret.avgS.val)
        /\ arg # None => ret.avgS.val = arg.val
        /\ arg = None => ret.avgS.val = avgS(r, g, b)

\* A call returned with a supplied scalar that differs from the one the
\* image would have given.
C3_SuppliedKept ==
    /\ pc = "returned"
    /\ arg # None
    /\ ret.avgS.val = arg.val
    /\ arg.val # avgS(r, g, b)

\* C4: a call without a scalar and a call on the same image with the scalar
\* the first call attached return the same values and the same scalar.
C4_Reproducible ==
    (pc = "returned" /\ prev # NoImage) => ret = prev

\* The second call returned, with a scalar that is not zero.
C4_SecondCall ==
    /\ pc = "returned"
    /\ prev # NoImage
    /\ arg.val = prev.avgS.val
    /\ arg.val # 0

\* C5: wherever band stands in the order of the dimensions, the call
\* completes, with the dimensions, shape and labels of the input.
C5_LayoutPreserved ==
    (Complete(xarr) /\ arg.kind # "float") =>
        /\ pc # "raised"
        /\ pc = "returned" =>
              ret.dims = xarr.dims /\ ret.shape = ShapeOf(xarr) /\ ret.band = xarr.band

\* A call on an image with band in the middle raised ValueError at line 79.
C5_LayoutRejected ==
    /\ pc = "raised"
    /\ err = "ValueError"
    /\ xarr.dims = << "y", "band", "x" >>
    /\ xarr.band = << "red", "green", "blue" >>
    /\ arg = None

\* C6 as stated: for a valid image with band first and a scalar supplied as
\* a bare float, the call completes without error.
C6_FloatAccepted ==
    (arg.kind = "float" /\ Complete(xarr) /\ xarr.dims[1] = "band") => pc # "raised"

\* C6, amended: a call with a bare float never returns; on an image that
\* passes line 79 it raises AttributeError at line 80, after the saturation
\* stage has used the float.
C6_FloatRejected ==
    arg.kind = "float" =>
        /\ pc \notin {"L81", "returned"}
        /\ ret = NoImage
        /\ rgbLin_xr.avgS = NoCoord
        /\ (pc = "raised" /\ Complete(xarr) /\ err # "ValueError") =>
              err = "AttributeError" /\ rgbLin = _satEnh(r, g, b, arg.val)

\* A call with a bare float raised AttributeError after line 78 ran.
C6_FloatRaised ==
    /\ pc = "raised"
    /\ err = "AttributeError"
    /\ arg.kind = "float"
    /\ rgbLin = _satEnh(r, g, b, arg.val)
    /\ rgbLin # NoArray

\* C7: on an image that lacks one of the labels red, green, blue the call
\* ends in KeyError at lines 73-75, with nothing returned, no scalar
\* computed and none attached.
C7_MissingBand ==
    ((pc # "off") /\ ~Complete(xarr)) =>
        /\ pc \in {"L73", "L74", "L75", "raised"}
        /\ pc = "raised" => err = "KeyError"
        /\ ret = NoImage
        /\ average_saturation = arg
        /\ rgbLin = NoArray
        /\ rgbLin_xr = NoImage

\* A call without a scalar on an image without blue raised KeyError.
C7_Raised ==
    /\ pc = "raised"
    /\ err = "KeyError"
    /\ "blue" \notin Labels(xarr)
    /\ arg = None
    /\ average_saturation = None
    /\ g # NoBand

\* C8 as stated: _sAdj of the value 0 is greater than 0.
C8_FloorLift ==
    (fpc \in {"encode", "done"} /\ fx[1] = 0) => ftone[1] > 0

\* C8, amended: _sAdj of the value 0 is 0, the gamma correction taking
\* gOffPow off again.
C8_BlackStaysBlack ==
    (fpc \in {"encode", "done"} /\ fx[1] = 0) => ftone[1] = 0

\* _sAdj has been applied to 0 and to a value it maps above 0.
C8_ToneOfBlack ==
    /\ fpc = "encode"
    /\ fx[1] = 0
    /\ ftone[2] > 0

Slack == Fix(<<1, 10000000>>)

C10_DenominatorNonZero ==
    fpc \in {"tone", "encode", "done"} =>
        /\ fden[1] # 0 /\ fden[2] # 0
        /\ fden[1] <= 0 - Fix(RDiv(midR, maxR))
        /\ fden[2] <= 0 - Fix(RDiv(midR, maxR))

\* The divisor has been computed at both ends of [0, 1].
C10_Ends ==
    /\ fpc = "tone"
    /\ fx = << 0, Scale >>
    /\ fden[1] = 0 - Fix(RDiv(midR, maxR))

============================================================================
